---------------------------- MODULE Spec2Model ----------------------------
(***************************************************************************)
(* Model of the GuardianPolicy operator.                                   *)
(*                                                                         *)
(*   src/src/controller.rs   run_controller: Controller::new(api, cfg)     *)
(*                           .run(reconcile, error_policy, ctx).for_each   *)
(*   src/src/reconcile.rs    reconcile, error_policy                       *)
(*   src/src/governance/traits.rs   PolicyEvaluator for Policy             *)
(*   src/src/webhook.rs      router, validate                              *)
(*   src/src/crd.rs          GuardianPolicySpec                            *)
(*   src/src/main.rs         main                                          *)
(*                                                                         *)
(* run_controller hands reconcile and error_policy to the kube runtime's   *)
(* Controller.  What Controller::run does with them (trigger on applied    *)
(* objects, a scheduler keyed by object reference, a runner that holds a   *)
(* request while a future for the same key occupies its slot, the requeue  *)
(* of the returned Action) is modelled here as the meaning of that call.   *)
(*                                                                         *)
(* Spec    the controller loop with its environment (watch events, time).  *)
(* FairSpec  the same with the runtime's fairness, for the liveness claims.*)
(* SpecMain  the process entry point, main.rs, on bounded command lines.   *)
(* SpecFn  the functions of the repository called directly on inputs drawn *)
(*         from bounded sets: evaluate, reconcile, error_policy, validate. *)
(***************************************************************************)
EXTENDS Integers, Sequences, FiniteSets, TLC

VARIABLES
    store,      \* reflector cache of the watched GuardianPolicy objects, by identifier
    lastRv,     \* last resource version handed out per identifier
    now,        \* clock (seconds)
    sched,      \* scheduler: the delayed reconcile request per identifier, if any
    pend,       \* scheduler: requests popped but held because the slot is busy
    slot,       \* runner: the future occupying the identifier's slot
    item,       \* the stream item handed to the for_each closure, if any
    log,        \* the lines printed so far (by kind)
    running,    \* run_controller is still awaiting the stream
    early,      \* history: a watch event expedited a timer that was still in the future
    prev,       \* history: what the last completed pass of the identifier saw and returned
    evalCall,   \* SpecFn: last call of Policy::evaluate
    recCall,    \* SpecFn: last call of reconcile
    polCall,    \* SpecFn: last call of error_policy
    webCall,    \* SpecFn: last POST /validate
    proc        \* SpecMain: the process started at main

ctlVars == <<store, lastRv, now, sched, pend, slot, item, log, running, early, prev>>
fnVars  == <<evalCall, recCall, polCall, webCall>>
vars    == <<store, lastRv, now, sched, pend, slot, item, log, running, early, prev,
             evalCall, recCall, polCall, webCall, proc>>

----------------------------------------------------------------------------
(* Bounds of the model *)

MaxRv == 2

MaxTime == 450

TickStep == 150

MaxFailures == 3

MaxArgs == 4

Ids == {"a", "b"}

----------------------------------------------------------------------------
(* crd.rs: GuardianPolicySpec { severity: String }.  The schema puts no    *)
(* constraint on the string, so any value can be in the store.             *)

Severities == {"low", "medium", "high", "critical"}

SeverityStrings == Severities \cup {"unknown"}

StoredSeverities == {"high", "unknown"}

NoObj == [rv |-> 0, severity |-> "none"]

GuardianPolicy(rv, sev) == [rv |-> rv, severity |-> sev]

----------------------------------------------------------------------------
(* reconcile.rs *)

SuccessRequeue == 300

FailureRequeue == 60

\* A reconcile that does its work on the first pass only and asks for an early
\* retry afterwards.
reconcile_once(policy) ==
    [ok |-> TRUE, requeue_after |-> IF "Reconciling" \in log THEN FailureRequeue ELSE SuccessRequeue]

\* A reconcile that asks for the next check an hour later.
reconcile_hourly(policy) == [ok |-> TRUE, requeue_after |-> 12 * SuccessRequeue]

\* A reconcile that fails on a severity outside the enumeration.
reconcile_strict(policy) ==
    [ok |-> policy.severity \in Severities, requeue_after |-> SuccessRequeue]

\* A reconcile that asks for an early retry when a pass of another identifier is
\* running beside it.
reconcile_contended(policy) ==
    [ok |-> TRUE,
     requeue_after |-> IF \A id \in Ids : slot[id].n > 0 THEN FailureRequeue ELSE SuccessRequeue]

\* reconcile(policy, _ctx): prints the name and returns Ok(Action::requeue(300 s)).
reconcile(policy) == [ok |-> TRUE, requeue_after |-> SuccessRequeue]

\* An error policy that backs off longer than the periodic re-check.
error_policy_long(obj, error) == [requeue_after |-> 2 * SuccessRequeue]

\* An error policy that doubles the delay with every consecutive failure.
error_policy_backoff(obj, error) ==
    [requeue_after |-> IF polCall.called /\ polCall.obj = obj
                       THEN 2 * polCall.action.requeue_after ELSE FailureRequeue]

\* error_policy(_obj, _error, _ctx): Action::requeue(60 s).
error_policy(obj, error) == [requeue_after |-> FailureRequeue]

----------------------------------------------------------------------------
(* controller.rs: Controller::new(api, Config::default()).run(...)         *)
(* The scheduler and the runner behind the call.  Config::default() has no *)
(* debounce and no concurrency limit.                                      *)

NoTimer == [on |-> FALSE, run_at |-> 0]

Timer(t) == [on |-> TRUE, run_at |-> t]

NoFuture == [n |-> 0, obj |-> NoObj]

NoItem == [kind |-> "none", id |-> "none", err |-> "none"]

OkItem(id) == [kind |-> "Ok", id |-> id, err |-> "none"]

ErrItem(id, e) == [kind |-> "Err", id |-> id, err |-> e]

\* A scheduler that drops a request for a key whose reconcile is running.
schedule_message_busy(id, run_at) ==
    IF pend[id] \/ slot[id].n > 0 THEN sched[id]
    ELSE IF sched[id].on /\ sched[id].run_at < run_at THEN sched[id] ELSE Timer(run_at)

\* A scheduler that never expedites an entry it already holds.
schedule_message_keep(id, run_at) ==
    IF pend[id] \/ sched[id].on THEN sched[id] ELSE Timer(run_at)

\* Scheduler::schedule_message: a request for a key that is pending is dropped; an
\* entry that would run later than the request is expedited to the request's time;
\* an entry that runs sooner is kept; a vacant key gets a new entry.
schedule_message(id, run_at) ==
    IF pend[id] THEN sched[id]
    ELSE IF sched[id].on
         THEN IF sched[id].run_at >= run_at THEN Timer(run_at) ELSE sched[id]
         ELSE Timer(run_at)

\* A runner that takes every expired request, whatever its slot holds.
CanTakeAlways(id) == TRUE

\* Runner: hold_unless(|msg| !slots.contains_key(msg)).
CanTake(id) == slot[id].n = 0

\* A run_msg that reconciles the object last seen rather than looking it up.
run_msg_stale(id) ==
    [n |-> slot[id].n + 1,
     obj |-> IF store[id] = NoObj THEN GuardianPolicy(lastRv[id], "high") ELSE store[id]]

\* The applier's run_msg: store.get(obj_ref) is Some(obj): the reconciler's future on
\* that object; None: a ready Err(ObjectNotFound).  The future goes into the slot.
run_msg(id) == [n |-> slot[id].n + 1, obj |-> store[id]]

\* The number of reconciliation passes executing for the identifier.
Passes(id) == IF slot[id].obj = NoObj THEN 0 ELSE slot[id].n

\* A loop that gives up at the first error (try_for_each).
for_each_stops_on_err(res) == res.kind = "Ok"

\* The closure of for_each: Ok(obj) prints "Reconciled", Err(e) prints "Reconcile
\* error"; either way the closure returns and the stream is polled again.  The
\* value is whether the loop goes on.
for_each_continues(res) == TRUE

for_each_line(res) == IF res.kind = "Ok" THEN "Reconciled" ELSE "Reconcile error"

Idle == running /\ item = NoItem

\* The states of section 4.3 as they show in the scheduler and the runner.
Reconciling(id) == Passes(id) > 0

Scheduled(id) == store[id] # NoObj /\ Passes(id) = 0 /\ sched[id].on

Terminal(id) == store[id] = NoObj /\ lastRv[id] > 0 /\ Passes(id) = 0

\* The watcher reports an applied object (created or updated); the reflector stores
\* it and trigger_self requests a reconcile of it, to run now.
WatchApplied(id, sev) ==
    /\ Idle
    /\ lastRv[id] < MaxRv
    /\ lastRv' = [lastRv EXCEPT ![id] = @ + 1]
    /\ store' = [store EXCEPT ![id] = GuardianPolicy(lastRv[id] + 1, sev)]
    /\ sched' = [sched EXCEPT ![id] = schedule_message(id, now)]
    /\ early' = [early EXCEPT ![id] = @ \/ (Scheduled(id) /\ sched[id].run_at > now)]
    /\ UNCHANGED <<now, pend, slot, item, log, running, prev>>
    /\ UNCHANGED <<fnVars, proc>>

\* The watcher reports a deleted object; the reflector drops it.  applied_objects()
\* passes no deletion on, so nothing is requested.
WatchDeleted(id) ==
    /\ Idle
    /\ store[id] # NoObj
    /\ store' = [store EXCEPT ![id] = NoObj]
    /\ UNCHANGED <<lastRv, now, sched, pend, slot, item, log, running, early, prev>>
    /\ UNCHANGED <<fnVars, proc>>

Tick ==
    /\ Idle
    /\ now + TickStep <= MaxTime
    /\ now' = now + TickStep
    /\ UNCHANGED <<store, lastRv, sched, pend, slot, item, log, running, early, prev>>
    /\ UNCHANGED <<fnVars, proc>>

\* The scheduler's timer for the identifier expires: the request leaves the
\* schedule; the runner takes it if the slot is free, else it is held as pending.
Pop(id) ==
    /\ Idle
    /\ sched[id].on
    /\ sched[id].run_at <= now
    /\ sched' = [sched EXCEPT ![id] = NoTimer]
    /\ IF CanTake(id)
       THEN /\ slot' = [slot EXCEPT ![id] = run_msg(id)]
            /\ early' = [early EXCEPT ![id] = FALSE]
            /\ pend' = pend
       ELSE /\ pend' = [pend EXCEPT ![id] = TRUE]
            /\ UNCHANGED <<slot, early>>
    /\ UNCHANGED <<store, lastRv, now, item, log, running, prev>>
    /\ UNCHANGED <<fnVars, proc>>

\* A held request is taken once the slot of its identifier is free.
TakePending(id) ==
    /\ Idle
    /\ pend[id]
    /\ CanTake(id)
    /\ pend' = [pend EXCEPT ![id] = FALSE]
    /\ slot' = [slot EXCEPT ![id] = run_msg(id)]
    /\ early' = [early EXCEPT ![id] = FALSE]
    /\ UNCHANGED <<store, lastRv, now, sched, item, log, running, prev>>
    /\ UNCHANGED <<fnVars, proc>>

\* A completion whose pass corrects the stored object's severity to "high".
Complete_patching(id) ==
    /\ Idle
    /\ slot[id].n > 0
    /\ slot' = [slot EXCEPT ![id] = IF @.n = 1 THEN NoFuture ELSE [@ EXCEPT !.n = @ - 1]]
    /\ IF slot[id].obj = NoObj
       THEN /\ item' = ErrItem(id, "ObjectNotFound")
            /\ UNCHANGED <<sched, log, prev, store>>
       ELSE /\ log' = log \cup {"Reconciling"}
            /\ store' = [store EXCEPT ![id] =
                            IF @ = NoObj THEN @ ELSE [@ EXCEPT !.severity = "high"]]
            /\ sched' = [sched EXCEPT ![id] = schedule_message(id, now + SuccessRequeue)]
            /\ item' = OkItem(id)
            /\ prev' = [prev EXCEPT ![id] =
                          [rv |-> slot[id].obj.rv, ok |-> TRUE,
                           requeue_after |-> SuccessRequeue,
                           again |-> (@.rv = slot[id].obj.rv)]]
    /\ UNCHANGED <<lastRv, now, pend, running, early>>
    /\ UNCHANGED <<fnVars, proc>>

\* The future in the slot completes.  A reconcile future: the Action of reconcile,
\* or of error_policy on Err, is requeued (RescheduleReconciliation) and the result
\* is the stream's next item.  A ready ObjectNotFound: the error is the next item.
Complete(id) ==
    /\ Idle
    /\ slot[id].n > 0
    /\ slot' = [slot EXCEPT ![id] = IF @.n = 1 THEN NoFuture ELSE [@ EXCEPT !.n = @ - 1]]
    /\ IF slot[id].obj = NoObj
       THEN /\ item' = ErrItem(id, "ObjectNotFound")
            /\ UNCHANGED <<sched, log, prev>>
       ELSE LET res    == reconcile(slot[id].obj)
                action == IF res.ok THEN [requeue_after |-> res.requeue_after]
                          ELSE error_policy(slot[id].obj, "ReconcilerFailed")
            IN  /\ log' = log \cup {"Reconciling"}
                /\ sched' = [sched EXCEPT ![id] = schedule_message(id, now + action.requeue_after)]
                /\ item' = IF res.ok THEN OkItem(id) ELSE ErrItem(id, "ReconcilerFailed")
                /\ prev' = [prev EXCEPT ![id] =
                              [rv |-> slot[id].obj.rv, ok |-> res.ok,
                               requeue_after |-> action.requeue_after,
                               again |-> (@.rv = slot[id].obj.rv)]]
    /\ UNCHANGED <<store, lastRv, now, pend, running, early>>
    /\ UNCHANGED <<fnVars, proc>>

\* for_each runs its closure on the item.
ForEach ==
    /\ running
    /\ item # NoItem
    /\ log' = log \cup {for_each_line(item)}
    /\ running' = for_each_continues(item)
    /\ item' = NoItem
    /\ UNCHANGED <<store, lastRv, now, sched, pend, slot, early, prev>>
    /\ UNCHANGED <<fnVars, proc>>

NoPass == [rv |-> 0, ok |-> TRUE, requeue_after |-> 0, again |-> FALSE]

NoCall == [called |-> FALSE]

\* No process has been started at main.
NoProc == [pc |-> "none", argv |-> <<>>, config |-> "none", out |-> <<>>, exit |-> -1,
           started |-> {}]

InitCtl ==
    /\ store = [id \in Ids |-> NoObj]
    /\ lastRv = [id \in Ids |-> 0]
    /\ now = 0
    /\ sched = [id \in Ids |-> NoTimer]
    /\ pend = [id \in Ids |-> FALSE]
    /\ slot = [id \in Ids |-> NoFuture]
    /\ item = NoItem
    /\ log = {}
    /\ running = TRUE
    /\ early = [id \in Ids |-> FALSE]
    /\ prev = [id \in Ids |-> NoPass]

InitFn ==
    /\ evalCall = NoCall
    /\ recCall = NoCall
    /\ polCall = NoCall
    /\ webCall = NoCall

Init == InitCtl /\ InitFn /\ proc = NoProc

Next ==
    \/ \E id \in Ids, sev \in StoredSeverities : WatchApplied(id, sev)
    \/ \E id \in Ids : WatchDeleted(id)
    \/ Tick
    \/ \E id \in Ids : Pop(id)
    \/ \E id \in Ids : TakePending(id)
    \/ \E id \in Ids : Complete(id)
    \/ ForEach

Spec == Init /\ [][Next]_vars

\* The runtime polls every ready future and fires every expired timer: the
\* controller's own steps and the clock are weakly fair; watch events are not.
Fairness ==
    /\ WF_vars(Tick)
    /\ WF_vars(ForEach)
    /\ \A id \in Ids : WF_vars(Pop(id)) /\ WF_vars(TakePending(id)) /\ WF_vars(Complete(id))

\* The liveness runs write one severity only: no step of the controller reads it.
NextFair ==
    \/ \E id \in Ids : WatchApplied(id, "high")
    \/ \E id \in Ids : WatchDeleted(id)
    \/ Tick
    \/ \E id \in Ids : Pop(id)
    \/ \E id \in Ids : TakePending(id)
    \/ \E id \in Ids : Complete(id)
    \/ ForEach

FairSpec == Init /\ [][NextFair]_vars /\ Fairness

\* The last instant the bounded clock reaches.
LastTick == (MaxTime \div TickStep) * TickStep

----------------------------------------------------------------------------
(* governance/traits.rs, webhook.rs, and the functions of reconcile.rs,    *)
(* each called directly.                                                   *)

\* governance/policies.rs is not among the sources; traits.rs reads the field
\* enabled of a Policy.  The severity is that of section 3 of the specification.
Policies == [enabled : BOOLEAN, severity : Severities]

\* fn evaluate(&self) -> bool: the verdict is a bool, true for Allow.
Allow == TRUE

Deny == FALSE

\* An evaluator that admits everything.
evaluate_always(policy) == TRUE

evaluate(policy) == policy.enabled

\* The body of a POST /validate: a proposed object.
AdmissionRequests == [severity : SeverityStrings, enabled : BOOLEAN]

EmptyBody == <<>>

\* async fn validate(): takes no extractor, prints, returns (): axum answers
\* 200 OK with an empty body.
validate == [status |-> 200, body |-> EmptyBody]

KubeErrors == {"Api", "Service"}

Objects == {GuardianPolicy(rv, sev) : rv \in 1..MaxRv, sev \in SeverityStrings}

CallEvaluate(p) ==
    /\ evalCall' = [called |-> TRUE, policy |-> p, verdict |-> evaluate(p)]
    /\ UNCHANGED <<recCall, polCall, webCall>>
    /\ UNCHANGED <<ctlVars, proc>>

CallReconcile(obj) ==
    /\ recCall' = [called |-> TRUE, obj |-> obj, result |-> reconcile(obj)]
    /\ UNCHANGED <<evalCall, polCall, webCall>>
    /\ UNCHANGED <<ctlVars, proc>>

\* The consecutive failures of the object so far, this one included (counted up to
\* MaxFailures); error_policy is not passed the count.
Failures(obj) ==
    IF polCall.called /\ polCall.obj = obj /\ polCall.nth < MaxFailures
    THEN polCall.nth + 1
    ELSE IF polCall.called /\ polCall.obj = obj THEN MaxFailures ELSE 1

CallErrorPolicy(obj, e) ==
    /\ polCall' = [called |-> TRUE, obj |-> obj, error |-> e, nth |-> Failures(obj),
                   action |-> error_policy(obj, e)]
    /\ UNCHANGED <<evalCall, recCall, webCall>>
    /\ UNCHANGED <<ctlVars, proc>>

\* What the handler does with a request, in order: it prints a line; it neither
\* reads the body nor calls the evaluator.
validate_does == <<"println">>

PostValidate(req) ==
    /\ webCall' = [called |-> TRUE, req |-> req, did |-> validate_does, resp |-> validate]
    /\ UNCHANGED <<evalCall, recCall, polCall>>
    /\ UNCHANGED <<ctlVars, proc>>

NextFn ==
    \/ \E p \in Policies : CallEvaluate(p)
    \/ \E obj \in Objects : CallReconcile(obj)
    \/ \E obj \in Objects, e \in KubeErrors : CallErrorPolicy(obj, e)
    \/ \E req \in AdmissionRequests : PostValidate(req)

SpecFn == Init /\ [][NextFn]_vars

----------------------------------------------------------------------------
(* main.rs *)

Tokens == {"--config", "policy.yaml", "other.yaml"}

Argvs == UNION {[1..n -> Tokens] : n \in 0..MaxArgs}

\* cli.rs is not among the sources.  Cli::parse() (clap): a command line that is
\* the config flag and a path parses; on any other clap prints the error and exits
\* the process.
parse(argv) ==
    IF Len(argv) = 2 /\ argv[1] = "--config" /\ argv[2] # "--config"
    THEN [ok |-> TRUE, config |-> argv[2]]
    ELSE [ok |-> FALSE, config |-> "none"]

ClapExit == 2

\* A main that runs the controller before it returns.
main_starts_controller == {"run_controller"}

\* What main starts between its two println! and Ok(()): nothing; neither
\* run_controller nor the webhook router is called (mod webhook is not declared).
main_starts == {}

\* let cli = Cli::parse();
MainParse ==
    /\ proc.pc = "start"
    /\ LET cli == parse(proc.argv)
       IN  proc' = IF cli.ok
                   THEN [proc EXCEPT !.pc = "parsed", !.config = cli.config]
                   ELSE [proc EXCEPT !.pc = "exited", !.exit = ClapExit]
    /\ UNCHANGED <<ctlVars, fnVars>>

\* println!("Loaded config: {}", cli.config);
MainPrintConfig ==
    /\ proc.pc = "parsed"
    /\ proc' = [proc EXCEPT !.pc = "loaded",
                            !.out = Append(@, <<"Loaded config: ", proc.config>>)]
    /\ UNCHANGED <<ctlVars, fnVars>>

\* println!("Async runtime initialized");
MainPrintRuntime ==
    /\ proc.pc = "loaded"
    /\ proc' = [proc EXCEPT !.pc = "returning",
                            !.out = Append(@, <<"Async runtime initialized">>),
                            !.started = main_starts]
    /\ UNCHANGED <<ctlVars, fnVars>>

\* Ok(())
MainReturn ==
    /\ proc.pc = "returning"
    /\ proc' = [proc EXCEPT !.pc = "exited", !.exit = 0]
    /\ UNCHANGED <<ctlVars, fnVars>>

InitMain ==
    /\ InitCtl
    /\ InitFn
    /\ proc \in {[NoProc EXCEPT !.pc = "start", !.argv = a] : a \in Argvs}

NextMain ==
    \/ MainParse
    \/ MainPrintConfig
    \/ MainPrintRuntime
    \/ MainReturn

SpecMain == InitMain /\ [][NextMain]_vars

----------------------------------------------------------------------------
(* Properties *)

\* C1: at most one reconciliation pass executes per identifier in every reachable
\* state of the controller; passes of different identifiers may overlap.
C1_AtMostOneInFlight == \A id \in Ids : Passes(id) <= 1

\* C1 witness: both identifiers have a pass in flight and a second request for "a",
\* arrived meanwhile, is held as pending.
C1_Witness == Passes("a") = 1 /\ Passes("b") = 1 /\ pend["a"]

\* C2 as stated: once an identifier is Terminal, no later step moves it out of
\* Terminal.
C2_TerminalForever == [][\A id \in Ids : Terminal(id) => Terminal(id)']_vars

\* C2 amended: while no object is created again under the identifier, a Terminal
\* identifier stays Terminal: no pass is started and no request is scheduled for it;
\* a timer pending at the deletion can only leave the schedule.
C2_TerminalUntilRecreated ==
    [][\A id \in Ids :
          (Terminal(id) /\ store'[id] = NoObj)
             => /\ Terminal(id)'
                /\ (sched'[id] = sched[id] \/ sched'[id] = NoTimer)]_vars

\* C2 witness: the object was reconciled, then deleted, and its requeue timer has
\* fired into ObjectNotFound without a pass.
C2_Witness ==
    \E id \in Ids :
        /\ Terminal(id)
        /\ prev[id].rv > 0
        /\ item = ErrItem(id, "ObjectNotFound")

\* C3: reconcile requeues after 300 on success, error_policy after 60, for every
\* object and error, so the delay after success is at least the delay after failure.
C3_RequeueOrder ==
    /\ recCall.called => (recCall.result.ok /\ recCall.result.requeue_after = 300)
    /\ polCall.called => polCall.action.requeue_after = 60
    /\ (recCall.called /\ polCall.called)
          => recCall.result.requeue_after >= polCall.action.requeue_after

\* C3 witness: both functions have been called, on an object of unknown severity.
C3_Witness ==
    /\ recCall.called /\ recCall.obj.severity = "unknown"
    /\ polCall.called /\ polCall.error = "Api"

\* C4: evaluate returns Allow exactly when the policy is enabled, Deny otherwise.
C4_AllowIffEnabled ==
    evalCall.called =>
        /\ (evalCall.verdict = Allow) <=> evalCall.policy.enabled
        /\ ~evalCall.policy.enabled => evalCall.verdict = Deny

\* C4 witness: a disabled policy of critical severity was evaluated and denied.
C4_Witness ==
    /\ evalCall.called
    /\ ~evalCall.policy.enabled
    /\ evalCall.policy.severity = "critical"
    /\ evalCall.verdict = Deny

\* C5 as stated: the webhook answers a request of non-enumerated severity with
\* allowed = false and reason "invalid severity", and {high, enabled} with allowed.
C5_WebhookRejectsSeverity ==
    webCall.called =>
        /\ webCall.req.severity \notin Severities
              => /\ DOMAIN webCall.resp.body = {"allowed", "reason"}
                 /\ webCall.resp.body.allowed = FALSE
                 /\ webCall.resp.body.reason = "invalid severity"
        /\ (webCall.req.severity = "high" /\ webCall.req.enabled)
              => /\ "allowed" \in DOMAIN webCall.resp.body
                 /\ webCall.resp.body.allowed = TRUE

\* C7: a pass that sees the object the previous pass of the identifier saw returns
\* the same outcome, and no pass changes the object store.
C7_Idempotent ==
    [][\A id \in Ids :
          (Passes(id) = 1 /\ Passes(id)' = 0)
             => /\ store' = store
                /\ lastRv' = lastRv
                /\ prev[id].rv = slot[id].obj.rv
                      => /\ prev'[id].ok = prev[id].ok
                         /\ prev'[id].requeue_after = prev[id].requeue_after]_vars

\* C7 witness: a second pass in a row on the unchanged object has completed.
C7_Witness == \E id \in Ids : prev[id].again /\ item = OkItem(id) /\ store[id].rv = prev[id].rv

\* C8: a step that yields an error for one identifier leaves the scheduler entry,
\* the pending mark, the slot and the stored object of every other identifier as
\* they were; the closure handles the error and the loop goes on.
C8_ErrorIsolated ==
    [][/\ (item = NoItem /\ item'.kind = "Err")
          => \A j \in Ids \ {item'.id} :
                /\ store'[j] = store[j]
                /\ sched'[j] = sched[j]
                /\ pend'[j] = pend[j]
                /\ slot'[j] = slot[j]
       /\ item.kind = "Err"
          => /\ running'
             /\ item' = NoItem
             /\ "Reconcile error" \in log'
             /\ <<store, sched, pend, slot>>' = <<store, sched, pend, slot>>]_vars

\* C8 witness: an error was reported earlier and the loop now holds a later result,
\* a successful pass of the other identifier.
C8_Witness ==
    /\ running
    /\ "Reconcile error" \in log
    /\ item = OkItem("b")
    /\ prev["a"].rv > 0
    /\ store["a"] = NoObj

\* C9 as stated: every answer to POST /validate is a 200 carrying a verdict: an
\* allowed flag and a reason string.
C9_VerdictOnEveryAnswer ==
    webCall.called =>
        /\ webCall.resp.status = 200
        /\ {"allowed", "reason"} \subseteq DOMAIN webCall.resp.body

\* C10: a watch event for an identifier in Scheduled whose timer is still in the
\* future makes its request due at once.
C10_WatchPreemptsTimer ==
    [][\A id \in Ids :
          (Scheduled(id) /\ sched[id].run_at > now /\ store'[id] # store[id] /\ store'[id] # NoObj)
             => /\ sched'[id].on
                /\ sched'[id].run_at <= now'
                /\ CanTake(id)']_vars

\* C10 witness: a requeue timer was expedited by a watch event and is due now.
C10_Witness ==
    \E id \in Ids :
        /\ early[id]
        /\ prev[id].rv > 0
        /\ Scheduled(id)
        /\ sched[id].run_at <= now
        /\ now < SuccessRequeue

\* A step in which the reconcile future of the identifier completes.
PassEnds(id) == Passes(id) = 1 /\ Passes(id)' = 0

\* C11 as stated: every pass of a present object ends in Scheduled with wake time
\* now + 300 after Success and now + 60 after Failure.
C11_EndsScheduledAtRequeue ==
    [][\A id \in Ids :
          (PassEnds(id) /\ store[id] # NoObj)
             => /\ Scheduled(id)'
                /\ sched'[id].run_at = now + (IF prev'[id].ok THEN 300 ELSE 60)]_vars

\* C11 amended: every pass ends with a next pass requested for the identifier, due
\* no later than now + 300 after Success (now + 60 after Failure), and due exactly
\* then when no request was raised during the pass; and under fairness a Scheduled
\* object whose wake time the clock reaches is reconciled again unless deleted.
C11_EndsWithNextPassDue ==
    /\ [][\A id \in Ids :
            PassEnds(id)
               => LET d == IF prev'[id].ok THEN 300 ELSE 60
                  IN  /\ sched'[id].on \/ pend'[id]
                      /\ sched'[id].on => sched'[id].run_at <= now + d
                      /\ (~sched[id].on /\ ~pend[id]) => sched'[id] = Timer(now + d)]_vars
    /\ \A id \in Ids :
          [](Scheduled(id) /\ sched[id].run_at <= LastTick
                => <>(Reconciling(id) \/ store[id] = NoObj))

\* C11 witness: a pass has ended with nothing raised meanwhile; the object is
\* Scheduled 300 from now, within the reach of the clock.
C11_Witness ==
    \E id \in Ids :
        /\ item = OkItem(id)
        /\ Scheduled(id)
        /\ sched[id] = Timer(now + 300)
        /\ now + 300 <= LastTick

\* The stored object is the one a pass is running on or the last pass completed on.
Seen(id) == slot[id].obj = store[id] \/ prev[id].rv = store[id].rv

\* C12: an applied object no pass has seen yet has a request that is due now or
\* held as pending (an event during a pass is not lost), and under fairness every
\* stored object is eventually seen by a pass unless it is deleted.
C12_EventLeadsToPass ==
    /\ [](\A id \in Ids :
            (store[id] # NoObj /\ ~Seen(id))
               => (sched[id].on /\ sched[id].run_at <= now) \/ pend[id])
    /\ \A id \in Ids :
          [](store[id] # NoObj => <>(store[id] = NoObj \/ Seen(id)))

\* C12 witness: an update arrived while the pass on the previous version is in
\* flight and its request is held as pending.
C12_Witness ==
    \E id \in Ids :
        /\ Passes(id) = 1
        /\ pend[id]
        /\ store[id].rv > slot[id].obj.rv

\* C13: error_policy returns the delay 60 for every object, every error and every
\* count of consecutive failures of the object, and a call changes nothing else.
C13_FixedBackoff ==
    /\ [](polCall.called => polCall.action = [requeue_after |-> 60])
    /\ [][polCall' # polCall
            => /\ polCall'.action.requeue_after = 60
               /\ UNCHANGED <<evalCall, recCall, webCall>>
               /\ UNCHANGED ctlVars]_vars

\* C13 witness: the third failure in a row of one object has been answered.
C13_Witness == polCall.called /\ polCall.nth = 3 /\ polCall.error = "Service"

C16_ControllerLeavesObjects ==
    [][(slot' # slot \/ item' # item \/ pend' # pend \/ prev' # prev)
          => (store' = store /\ lastRv' = lastRv)]_vars

\* C16 witness: an object of unknown severity has gone through a whole pass and
\* the closure, and is stored as it was written.
C16_Witness ==
    \E id \in Ids :
        /\ item = NoItem
        /\ "Reconciled" \in log
        /\ prev[id].rv = store[id].rv
        /\ store[id].severity = "unknown"
        /\ Scheduled(id)

\* C18: every completed pass, whatever the severity of its object, is a Success
\* with requeue 300; the stream never carries a reconciler failure, so no requeue
\* comes from error_policy, and the controller never calls the policy evaluator.
C18_ReconcileNeverFails ==
    /\ \A id \in Ids : prev[id].rv > 0 => (prev[id].ok /\ prev[id].requeue_after = 300)
    /\ item.err # "ReconcilerFailed"
    /\ ~evalCall.called

\* C18 witness: a pass on an object of unknown severity has just succeeded and the
\* object is requeued 300 from now.
C18_Witness ==
    \E id \in Ids :
        /\ item = OkItem(id)
        /\ prev[id].rv = store[id].rv
        /\ store[id].severity = "unknown"
        /\ sched[id] = Timer(now + 300)

\* C19: the outcome of a pass does not depend on the passes of other identifiers,
\* before it or beside it: all completed passes have the same outcome, and the
\* end of a pass changes nothing that belongs to another identifier.
C19_PassesIndependent ==
    /\ [](\A i, j \in Ids :
            (prev[i].rv > 0 /\ prev[j].rv > 0)
               => (prev[i].ok = prev[j].ok /\ prev[i].requeue_after = prev[j].requeue_after))
    /\ [][\A i \in Ids :
            PassEnds(i)
               => \A j \in Ids \ {i} :
                     /\ prev'[j] = prev[j]
                     /\ slot'[j] = slot[j]
                     /\ sched'[j] = sched[j]
                     /\ pend'[j] = pend[j]]_vars

\* C19 witness: the pass of "b" has completed while a pass of "a", which had
\* completed one before, is in flight.
C19_Witness ==
    /\ prev["a"].rv > 0
    /\ Passes("a") = 1
    /\ item = OkItem("b")
    /\ prev["b"].rv > 0

\* C20: main ends; after a command line that parses it has printed the config path
\* and the runtime line and returns success; it has started neither the controller
\* nor the webhook, and no reconciliation pass or validation has run.
C20_MainOnlyPrints ==
    /\ proc.pc # "exited" => ENABLED NextMain
    /\ (proc.pc = "exited" /\ parse(proc.argv).ok)
          => /\ proc.exit = 0
             /\ proc.out = <<<<"Loaded config: ", proc.argv[2]>>, <<"Async runtime initialized">>>>
    /\ proc.started = {}
    /\ \A id \in Ids : slot[id] = NoFuture /\ prev[id] = NoPass /\ ~sched[id].on
    /\ ~webCall.called

\* C20 witness: main has returned success on --config policy.yaml.
C20_Witness ==
    /\ proc.pc = "exited"
    /\ proc.argv = <<"--config", "policy.yaml">>
    /\ proc.exit = 0
    /\ Len(proc.out) = 2

=============================================================================
